---------------------------- MODULE Spec2Model ----------------------------
(***************************************************************************)
(* The kd-tree PointSet of src/src/2dtree.cpp (namespace kdtree) with the  *)
(* Point and Rect primitives it uses.                                      *)
(*                                                                         *)
(* Coordinates are doubles in the program.  Here a coordinate is counted   *)
(* in units of 2^-53, half of std::numeric_limits<double>::epsilon(), so   *)
(* that epsilon is 2 units: small multiples of 2^-53, their differences    *)
(* and the sums of their squares are exact doubles, and integer            *)
(* arithmetic on the counts is what the program computes.                  *)
(*                                                                         *)
(* Nodes live in a heap: a function from node identities (positive         *)
(* integers) to Node records; NULL is nullptr.  A PointSet is the record   *)
(* of its three members m_root, m_size, max_depth.                         *)
(***************************************************************************)
EXTENDS Integers, Sequences, FiniteSets, TLC

\* Largest coordinate of an input point (in units of 2^-53).
MaxCoord == 2
\* Number of put calls in one behaviour.
MaxPuts == 4
\* Number of put calls in one behaviour that asks for the nearest point.
MaxNearestPuts == 3
\* Number of put calls, on the tree and on its copy together, in one behaviour
\* that copies the tree.
MaxCopyPuts == 3

\* Steps past the tree's size a caller's iteration is followed for.
MaxSpin == 2

\* std::numeric_limits<double>::epsilon() in units of 2^-53.
Eps == 2

NULL == 0

Coords == 0..MaxCoord
Points == Coords \X Coords

x(p) == p[1]
y(p) == p[2]

Abs(a) == IF a < 0 THEN -a ELSE a
Min(a, b) == IF a <= b THEN a ELSE b
Max(a, b) == IF a >= b THEN a ELSE b

\* Point::operator== : both coordinate differences below epsilon.
PointEq(p, q) == (Abs(x(p) - x(q)) < Eps) /\ (Abs(y(p) - y(q)) < Eps)

\* Point::distance is sqrt(dx^2 + dy^2).  The program only compares
\* distances with each other, with 0 and with |delta|; sqrt is strictly
\* increasing and exact on these magnitudes, so the model keeps the square
\* and squares the other side of every comparison.
distanceSq(p, q) == (x(p) - x(q)) * (x(p) - x(q)) + (y(p) - y(q)) * (y(p) - y(q))

-----------------------------------------------------------------------------
(* The node heap *)

\* Node::Node(const Point &) followed by node->depth = depth.
NewNode(point, depth) ==
    [m_point |-> point, depth |-> depth, left |-> NULL, right |-> NULL, parent |-> NULL]

\* std::make_shared<Node>: the identity of a fresh node.
NewId(h) == CHOOSE n \in 1..(Cardinality(DOMAIN h) + 1) : n \notin DOMAIN h

EmptySet == [m_root |-> NULL, m_size |-> 0, max_depth |-> 0]

\* The nodes owned (through left/right) by the subtree of node.
RECURSIVE Subtree(_, _)
Subtree(h, node) ==
    IF node = NULL THEN {}
    ELSE {node} \cup Subtree(h, h[node].left) \cup Subtree(h, h[node].right)

\* Releasing the last owning reference to node frees its whole subtree.
Release(h, node) == [n \in (DOMAIN h) \ Subtree(h, node) |-> h[n]]

\* The split test shared by insert and find: x on even depth, y on odd.
toLeft(nd, point) ==
    IF nd.depth % 2 = 0 THEN x(point) <= x(nd.m_point) ELSE y(point) <= y(nd.m_point)

\* kdtree::PointSet::insert.  Works on the heap h and the members s of the
\* set; yields the new heap, the new members and the returned node.
RECURSIVE insert(_, _, _, _, _)
insert(h, s, point, node, depth) ==
    LET s1 == [s EXCEPT !.max_depth = Max(s.max_depth, depth)] IN
    IF node = NULL THEN
        LET n == NewId(h) IN
        [heap |-> (n :> NewNode(point, depth)) @@ h,
         set |-> [s1 EXCEPT !.m_size = s1.m_size + 1],
         node |-> n]
    ELSE IF PointEq(h[node].m_point, point) THEN
        [heap |-> h, set |-> s1, node |-> node]
    ELSE IF toLeft(h[node], point) THEN
        LET r == insert(h, s1, point, h[node].left, depth + 1)
            h1 == [r.heap EXCEPT ![node].left = r.node]
            h2 == [h1 EXCEPT ![h1[node].left].parent = node]
        IN [heap |-> h2, set |-> r.set, node |-> node]
    ELSE
        LET r == insert(h, s1, point, h[node].right, depth + 1)
            h1 == [r.heap EXCEPT ![node].right = r.node]
            h2 == [h1 EXCEPT ![h1[node].right].parent = node]
        IN [heap |-> h2, set |-> r.set, node |-> node]

\* tree->m_root = tree->insert(p, tree->m_root, 0)
insertRoot(h, s, point) ==
    LET r == insert(h, s, point, s.m_root, 0)
    IN [heap |-> r.heap, set |-> [r.set EXCEPT !.m_root = r.node]]


-----------------------------------------------------------------------------
(* In-order iteration through parent back-references *)

\* kdtree::PointSet::left : the leftmost descendant of node.
RECURSIVE left(_, _)
left(h, node) ==
    IF node # NULL /\ h[node].left # NULL THEN left(h, h[node].left) ELSE node

\* The while loop of next: climb while the node is its parent's right child.
\* Yields the node reached and whether the body ran (it sets isRight).
RECURSIVE climb(_, _, _)
climb(h, node, ran) ==
    LET parent == h[node].parent IN
    IF parent # NULL /\ h[parent].right = node
    THEN climb(h, parent, TRUE)
    ELSE [node |-> node, ran |-> ran]

\* kdtree::PointSet::next(root, node).  The local isRight is declared
\* without an initial value and assigned only in the loop body, so when the
\* loop body does not run the test "node == root && isRight" reads an
\* indeterminate value: uninit is the value that read produces.
next(h, root, node, uninit) ==
    IF node = NULL THEN NULL
    ELSE IF h[node].right # NULL THEN left(h, h[node].right)
    ELSE LET c == climb(h, node, FALSE)
             isRight == IF c.ran THEN TRUE ELSE uninit
         IN IF c.node = root /\ isRight THEN NULL
            ELSE IF h[c.node].parent # NULL THEN h[c.node].parent
            ELSE c.node

\* kdtree::PointSet::begin : the iterator's m_current.
begin(h, s) == left(h, s.m_root)

\* for (auto it = begin(); it != end(); it++) collecting *it, every
\* indeterminate read of one loop yielding the same value uninit.  A loop
\* that takes more steps than the heap has nodes has come back to a node it
\* left and never ends: done is FALSE then.
RECURSIVE iterate(_, _, _, _, _, _)
iterate(h, root, node, uninit, acc, fuel) ==
    IF node = NULL THEN [done |-> TRUE, points |-> acc]
    ELSE IF fuel = 0 THEN [done |-> FALSE, points |-> acc]
    ELSE iterate(h, root, next(h, root, node, uninit), uninit,
                 Append(acc, h[node].m_point), fuel - 1)

traverse(h, s, uninit) ==
    iterate(h, s.m_root, begin(h, s), uninit, <<>>, Cardinality(DOMAIN h) + 1)

-----------------------------------------------------------------------------
(* Bulk build and rebuild *)

\* The comparator of buildTree's nth_element: x on even depth, y on odd.
key(p, depth) == IF depth % 2 = 0 THEN x(p) ELSE y(p)

\* std::nth_element(first, first + middle, last, comp) on the points S of
\* the buffer range: the arrangements it may leave, each as <<m, L>> with m
\* the element at middle and L the elements before it; the rest follow it.
\* The standard fixes only that no element before middle is greater than m
\* and none after it is less.
nth_element(S, depth) ==
    LET middle == Cardinality(S) \div 2 IN
    {c \in S \X (SUBSET S) :
        /\ c[1] \notin c[2]
        /\ Cardinality(c[2]) = middle
        /\ \A l \in c[2] : ~(key(c[1], depth) < key(l, depth))
        /\ \A r \in S \ (c[2] \cup {c[1]}) : ~(key(r, depth) < key(c[1], depth))}

\* kdtree::PointSet::buildTree on the buffer range holding the points S:
\* the sequences in which it may hand the points to insert (the median,
\* then the range before it, then the range after it).
RECURSIVE buildTree(_, _)
buildTree(S, depth) ==
    IF S = {} THEN {<<>>}
    ELSE UNION {
           {<<c[1]>> \o a \o b :
               a \in buildTree(c[2], depth + 1),
               b \in buildTree(S \ (c[2] \cup {c[1]}), depth + 1)}
           : c \in nth_element(S, depth)}

\* The inserts of one build, in order, each from the root at depth 0.
RECURSIVE insertAll(_, _, _)
insertAll(h, s, order) ==
    IF order = <<>> THEN [heap |-> h, set |-> s]
    ELSE LET r == insertRoot(h, s, Head(order))
         IN insertAll(r.heap, r.set, Tail(order))

\* floor(e^d) for d = 1..8.
ExpFloor == <<2, 7, 20, 54, 148, 403, 1096, 2980>>

\* max_depth > 2 * std::log(m_size): e^max_depth > m_size^2, and e^d is no
\* integer for d >= 1.  std::log(0) is -infinity.
needsRebuild(s) ==
    IF s.m_size = 0 THEN TRUE
    ELSE s.max_depth > 0 /\ ExpFloor[s.max_depth] >= s.m_size * s.m_size

Elems(f) == {f[i] : i \in DOMAIN f}

\* kdtree::PointSet::reBuild : the outcomes of one call.  ended is FALSE
\* when the dump loop never ends (the members are untouched then).
reBuild(h, s) ==
    IF ~needsRebuild(s) THEN {[heap |-> h, set |-> s, ended |-> TRUE]}
    ELSE UNION {
        LET t == traverse(h, s, uninit) IN
        IF ~t.done THEN {[heap |-> h, set |-> s, ended |-> FALSE]}
        ELSE {LET r == insertAll(Release(h, s.m_root), EmptySet, order)
              IN [heap |-> r.heap, set |-> r.set, ended |-> TRUE]
              : order \in buildTree(Elems(t.points), 0)}
        : uninit \in BOOLEAN}

\* kdtree::PointSet::put : the outcomes of one call.
put(h, s, p) ==
    LET r == insertRoot(h, s, p) IN reBuild(r.heap, r.set)

\* kdtree::PointSet::PointSet(const std::string &) on a file holding the
\* points S, each once: the outcomes of the build.  No reBuild follows.
construct(S) ==
    {insertAll(<< >>, EmptySet, order) : order \in buildTree(S, 0)}

-----------------------------------------------------------------------------
(* Queries *)

\* kdtree::PointSet::find : the node found, or NULL.
RECURSIVE find(_, _, _)
find(h, p, node) ==
    IF node = NULL THEN NULL
    ELSE IF PointEq(h[node].m_point, p) THEN node
    ELSE IF toLeft(h[node], p) THEN find(h, p, h[node].left)
    ELSE find(h, p, h[node].right)

\* kdtree::PointSet::contains
contains(h, s, p) == find(h, p, s.m_root) # NULL

\* A Rect is its two corners.
Rect(lb, rt) == [left_bottom |-> lb, right_top |-> rt]
xmin(r) == x(r.left_bottom)
ymin(r) == y(r.left_bottom)
xmax(r) == x(r.right_top)
ymax(r) == y(r.right_top)

\* Rect::distance
Rect_distance(r, p) ==
    IF x(p) >= xmin(r) /\ x(p) <= xmax(r) THEN
        IF y(p) >= ymin(r) /\ y(p) <= ymax(r) THEN 0
        ELSE Min(Abs(y(p) - ymin(r)), Abs(y(p) - ymax(r)))
    ELSE Min(Abs(x(p) - xmin(r)), Abs(x(p) - xmax(r)))

\* Rect::contains
Rect_contains(r, p) == Abs(Rect_distance(r, p)) < Eps

\* kdtree::PointSet::findPointsInRectangle : points is the vector so far.
RECURSIVE findPointsInRectangle(_, _, _, _)
findPointsInRectangle(h, node, points, rect) ==
    IF node = NULL THEN points
    ELSE
        LET nd == h[node]
            p1 == IF Rect_contains(rect, nd.m_point)
                  THEN Append(points, nd.m_point) ELSE points
            goLeft == IF nd.depth % 2 = 0 THEN x(nd.m_point) >= xmin(rect)
                      ELSE y(nd.m_point) >= ymin(rect)
            goRight == IF nd.depth % 2 = 0 THEN x(nd.m_point) <= xmax(rect)
                       ELSE y(nd.m_point) <= ymax(rect)
            p2 == IF goLeft THEN findPointsInRectangle(h, nd.left, p1, rect) ELSE p1
        IN IF goRight THEN findPointsInRectangle(h, nd.right, p2, rect) ELSE p2

\* kdtree::PointSet::range : the vector the returned iterator pair spans.
range(h, s, rect) == findPointsInRectangle(h, s.m_root, << >>, rect)

\* findNeighbour with the pruning test comparing the signed delta: a query
\* point on the greater side of the split (delta < 0) never has the far
\* subtree searched.
RECURSIVE findNeighbour_signedDelta(_, _, _, _)
findNeighbour_signedDelta(h, node, point, closest_found) ==
    IF node = NULL THEN closest_found
    ELSE
        LET nd == h[node]
            dist == distanceSq(nd.m_point, point)
            c1 == IF dist < distanceSq(point, closest_found)
                  THEN nd.m_point ELSE closest_found
            delta == IF nd.depth % 2 = 0 THEN x(nd.m_point) - x(point)
                     ELSE y(nd.m_point) - y(point)
            c2 == findNeighbour_signedDelta(h, IF delta > 0 THEN nd.left ELSE nd.right,
                                            point, c1)
        IN IF dist = 0 THEN c1
           ELSE IF delta <= 0 \/ delta * delta >= distanceSq(point, c2) THEN c2
           ELSE findNeighbour_signedDelta(h, IF delta > 0 THEN nd.right ELSE nd.left,
                                          point, c2)

\* kdtree::PointSet::findNeighbour : yields closest_found on return.
RECURSIVE findNeighbour(_, _, _, _)
findNeighbour(h, node, point, closest_found) ==
    IF node = NULL THEN closest_found
    ELSE
        LET nd == h[node]
            dist == distanceSq(nd.m_point, point)
            c1 == IF dist < distanceSq(point, closest_found)
                  THEN nd.m_point ELSE closest_found
            delta == IF nd.depth % 2 = 0 THEN x(nd.m_point) - x(point)
                     ELSE y(nd.m_point) - y(point)
            c2 == findNeighbour(h, IF delta > 0 THEN nd.left ELSE nd.right, point, c1)
        IN IF dist = 0 THEN c1
           ELSE IF delta * delta >= distanceSq(point, c2) THEN c2
           ELSE findNeighbour(h, IF delta > 0 THEN nd.right ELSE nd.left, point, c2)

\* kdtree::PointSet::nearest(const Point &) : the outcomes of one call.
\* With m_root null the first statement reads through a null pointer: the
\* call ends the process, or goes on with whatever Point the read gave.
nearest(h, s, point) ==
    IF s.m_root = NULL
    THEN {[crashed |-> TRUE]}
         \cup {[crashed |-> FALSE, has_value |-> TRUE, value |-> g] : g \in Points}
    ELSE {[crashed |-> FALSE, has_value |-> TRUE,
           value |-> findNeighbour(h, s.m_root, point, h[s.m_root].m_point)]}

\* std::max_element over the buffer with the comparator
\* lhs.distance(p) <= rhs.distance(p): the position it returns (the scan
\* moves on to every later element that is not nearer than its candidate).
RECURSIVE max_element(_, _, _, _)
max_element(buf, p, largest, i) ==
    IF i > Len(buf) THEN largest
    ELSE IF distanceSq(buf[largest], p) <= distanceSq(buf[i], p)
         THEN max_element(buf, p, i, i + 1)
         ELSE max_element(buf, p, largest, i + 1)

\* The body of nearest(p, k)'s loop, over the points the iterator yields.
RECURSIVE collect(_, _, _, _)
collect(visited, p, k, neighbours) ==
    IF visited = << >> THEN neighbours
    ELSE LET pt == Head(visited) IN
         IF Len(neighbours) < k
         THEN collect(Tail(visited), p, k, Append(neighbours, pt))
         ELSE LET m == max_element(neighbours, p, 1, 2) IN
              IF distanceSq(pt, p) < distanceSq(neighbours[m], p)
              THEN collect(Tail(visited), p, k, [neighbours EXCEPT ![m] = pt])
              ELSE collect(Tail(visited), p, k, neighbours)

\* kdtree::PointSet::nearest(const Point &, std::size_t) : the outcomes of
\* one call, each the points the caller reads from the returned pair, or
\* ended = FALSE when a loop over the tree never ends.  For k >= m_size the
\* pair is (begin(), end()) and the loop over the tree is the caller's.
nearestK(h, s, p, k) ==
    IF k >= s.m_size THEN
        {LET t == traverse(h, s, uninit)
         IN [ended |-> t.done, points |-> IF t.done THEN t.points ELSE << >>]
         : uninit \in BOOLEAN}
    ELSE IF k = 0 THEN {[ended |-> TRUE, points |-> << >>]}
    ELSE
        {LET t == traverse(h, s, uninit)
         IN [ended |-> t.done,
             points |-> IF t.done THEN collect(t.points, p, k, << >>) ELSE << >>]
         : uninit \in BOOLEAN}

-----------------------------------------------------------------------------
(* The reference set: rbtree::PointSet, a std::set<Point> ordered by       *)
(* Point::operator<                                                        *)

\* Point::operator<
PointLess(p, q) == x(p) < x(q) \/ y(p) < y(q)

\* The equivalence std::set derives from its ordering: neither is less.
equivalent(p, q) == ~PointLess(p, q) /\ ~PointLess(q, p)

\* m_set is kept as the number of elements holding each point; the order
\* in which std::set iterates them is left open.
rb_empty == << >>
rb_size(s) ==
    LET RECURSIVE sum(_)
        sum(D) == IF D = {} THEN 0
                  ELSE LET d == CHOOSE e \in D : TRUE IN s[d] + sum(D \ {d})
    IN sum(DOMAIN s)

\* rbtree::PointSet::put : the values m_set can have after m_set.insert(p).
\* Point::operator< is not a strict weak ordering ((0,1) < (1,0) and
\* (1,0) < (0,1)), so the standard does not say what insert does.  The
\* search of the red-black tree goes left where p < node and right
\* otherwise, and insert refuses p only if the last node it went right at
\* is equivalent to p: a point with no equivalent element is always added;
\* a point with an equivalent element is refused when the search meets that
\* element, and added a second time when the rotations of earlier inserts
\* have moved the element off the search path, which takes three elements.
rb_put(s, p) ==
    IF \E q \in DOMAIN s : equivalent(q, p)
    THEN {s} \cup (IF rb_size(s) >= 3 THEN {[s EXCEPT ![p] = @ + 1]} ELSE {})
    ELSE {(p :> 1) @@ s}

\* rbtree::PointSet::range : the points of the vector the returned pair
\* spans.
rb_range(s, rect) == {p \in DOMAIN s : Rect_contains(rect, p)}

\* rbtree::PointSet::nearest on a non-empty set: std::min_element yields
\* the first element, in iteration order, that no element is nearer than.
rb_nearest(s, point) ==
    {p \in DOMAIN s :
        \A q \in DOMAIN s : ~(distanceSq(q, point) < distanceSq(p, point))}

-----------------------------------------------------------------------------
(* Copy construction *)

\* copyTree duplicating only the node it is given: the duplicate's child
\* links are copies of the source's, so the subtrees below are shared.
copyTree_shallow(h, from) ==
    IF from = NULL THEN [heap |-> h, node |-> NULL]
    ELSE LET to == NewId(h)
         IN [heap |-> (to :> [NewNode(h[from].m_point, h[from].depth)
                                 EXCEPT !.left = h[from].left,
                                        !.right = h[from].right]) @@ h,
             node |-> to]

\* kdtree::PointSet::copyTree : yields the heap with the duplicate of the
\* subtree of from, and the duplicate's root (the value left in "to").
RECURSIVE copyTree(_, _)
copyTree(h, from) ==
    IF from = NULL THEN [heap |-> h, node |-> NULL]
    ELSE
        LET to == NewId(h)
            h0 == (to :> NewNode(h[from].m_point, h[from].depth)) @@ h
        IN IF h[from].left = NULL /\ h[from].right = NULL
           THEN [heap |-> h0, node |-> to]
           ELSE
             LET l == copyTree(h0, h[from].left)
                 h1 == [l.heap EXCEPT ![to].left = l.node]
                 h2 == IF l.node # NULL
                       THEN [h1 EXCEPT ![l.node].parent = to] ELSE h1
                 r == copyTree(h2, h[from].right)
                 h3 == [r.heap EXCEPT ![to].right = r.node]
                 h4 == IF r.node # NULL
                       THEN [h3 EXCEPT ![r.node].parent = to] ELSE h3
             IN [heap |-> h4, node |-> to]

\* kdtree::PointSet::PointSet(const PointSet &)
copyConstruct(h, set) ==
    LET c == copyTree(h, set.m_root)
    IN [heap |-> c.heap,
        set |-> [m_root |-> c.node, m_size |-> set.m_size, max_depth |-> set.max_depth]]

-----------------------------------------------------------------------------
(* The program state *)

VARIABLES
    heap,     \* the nodes alive: node identity -> Node
    tree,     \* the members of the PointSet the operations are called on
    other,    \* the members of a PointSet copy-constructed from it, or NoSet
    status,   \* "running", "hung" (a call that never returns) or "crashed"
    calls,    \* the numbers of put calls made, on tree and on other
    history,  \* the points passed to tree.put so far
    ret,      \* the result of a query the caller holds, or NoRet
    cur,      \* a caller's iterator over the tree: NoIter or <<m_current>>
    seen,     \* the points that iterator has been dereferenced at
    rb        \* m_set of the rbtree::PointSet fed the same points, see rb_put

vars == <<heap, tree, other, status, calls, history, ret, cur, seen, rb>>

NoSet == [m_root |-> NULL, m_size |-> 0, max_depth |-> 0, absent |-> TRUE]
NoRet == [op |-> "none"]
NoIter == << >>

\* Rectangles with xmin <= xmax and ymin <= ymax.
Rects ==
    {Rect(c[1], c[2]) :
        c \in {d \in Points \X Points : x(d[1]) <= x(d[2]) /\ y(d[1]) <= y(d[2])}}

\* kdtree::PointSet tree; (no file: the default filename opens nothing)
Init ==
    /\ heap = << >>
    /\ tree = EmptySet
    /\ other = NoSet
    /\ status = "running"
    /\ calls = [on_tree |-> 0, on_other |-> 0]
    /\ history = {}
    /\ ret = NoRet
    /\ cur = NoIter
    /\ seen = << >>
    /\ rb = rb_empty

\* The caller is between calls: it holds no result and no iterator.
Idle == status = "running" /\ ret = NoRet /\ cur = NoIter

\* tree.put(p)
Put(p) ==
    /\ Idle
    /\ calls.on_tree + calls.on_other < MaxPuts
    /\ \E o \in put(heap, tree, p) :
          /\ heap' = o.heap
          /\ tree' = o.set
          /\ status' = IF o.ended THEN "running" ELSE "hung"
    /\ calls' = [calls EXCEPT !.on_tree = @ + 1]
    /\ history' = history \cup {p}
    /\ UNCHANGED <<rb, other, ret, cur, seen>>

\* tree.contains(q)
Contains(q) ==
    /\ Idle
    /\ ret' = [op |-> "contains", arg |-> q, val |-> contains(heap, tree, q)]
    /\ UNCHANGED <<rb, heap, tree, other, status, calls, history, cur, seen>>

\* tree.range(r), the caller reading the pair it returns
RangeQuery(r) ==
    /\ Idle
    /\ ret' = [op |-> "range", arg |-> r, val |-> range(heap, tree, r)]
    /\ UNCHANGED <<rb, heap, tree, other, status, calls, history, cur, seen>>

\* tree.nearest(q)
Nearest(q) ==
    /\ Idle
    /\ \E o \in nearest(heap, tree, q) :
          IF o.crashed
          THEN status' = "crashed" /\ ret' = NoRet
          ELSE /\ status' = status
               /\ ret' = [op |-> "nearest", arg |-> q,
                          has_value |-> o.has_value, val |-> o.value]
    /\ UNCHANGED <<rb, heap, tree, other, calls, history, cur, seen>>

\* tree.nearest(q, k), the caller reading the pair it returns
NearestK(q, k) ==
    /\ Idle
    /\ \E o \in nearestK(heap, tree, q, k) :
          IF o.ended
          THEN /\ status' = status
               /\ ret' = [op |-> "nearestK", arg |-> q, k |-> k, val |-> o.points]
          ELSE status' = "hung" /\ ret' = NoRet
    /\ UNCHANGED <<rb, heap, tree, other, calls, history, cur, seen>>

\* The result goes out of scope.
Discard ==
    /\ status = "running"
    /\ ret # NoRet
    /\ ret' = NoRet
    /\ UNCHANGED <<rb, heap, tree, other, status, calls, history, cur, seen>>

\* auto it = tree.begin();
Begin ==
    /\ Idle
    /\ cur' = <<begin(heap, tree)>>
    /\ seen' = << >>
    /\ UNCHANGED <<rb, heap, tree, other, status, calls, history, ret>>

\* *it followed by ++it, for an iterator that is not end().  The caller
\* gives up after MaxSpin steps more than the tree has points.
Increment ==
    /\ status = "running"
    /\ cur # NoIter
    /\ cur[1] # NULL
    /\ Len(seen) < tree.m_size + MaxSpin
    /\ \E uninit \in BOOLEAN : cur' = <<next(heap, tree.m_root, cur[1], uninit)>>
    /\ seen' = Append(seen, heap[cur[1]].m_point)
    /\ UNCHANGED <<rb, heap, tree, other, status, calls, history, ret>>

\* The iterator goes out of scope.
EndIteration ==
    /\ status = "running"
    /\ cur # NoIter
    /\ cur' = NoIter
    /\ seen' = << >>
    /\ UNCHANGED <<rb, heap, tree, other, status, calls, history, ret>>

\* kdtree::PointSet other(tree);
Copy ==
    /\ Idle
    /\ other = NoSet
    /\ LET c == copyConstruct(heap, tree) IN heap' = c.heap /\ other' = c.set
    /\ UNCHANGED <<rb, tree, status, calls, history, ret, cur, seen>>

\* other.put(p)
PutOther(p) ==
    /\ Idle
    /\ other # NoSet
    /\ calls.on_tree + calls.on_other < MaxCopyPuts
    /\ \E o \in put(heap, other, p) :
          /\ heap' = o.heap
          /\ other' = o.set
          /\ status' = IF o.ended THEN "running" ELSE "hung"
    /\ calls' = [calls EXCEPT !.on_other = @ + 1]
    /\ UNCHANGED <<rb, tree, history, ret, cur, seen>>

\* The same point put into both sets: kd_tree.put(p); rb_tree.put(p);
PutBoth(p) ==
    /\ Idle
    /\ calls.on_tree + calls.on_other < MaxPuts
    /\ \E o \in put(heap, tree, p) :
          /\ heap' = o.heap
          /\ tree' = o.set
          /\ status' = IF o.ended THEN "running" ELSE "hung"
    /\ \E s \in rb_put(rb, p) : rb' = s
    /\ calls' = [calls EXCEPT !.on_tree = @ + 1]
    /\ history' = history \cup {p}
    /\ UNCHANGED <<other, ret, cur, seen>>

\* to_set(rb_tree.range(r)) and to_set(kd_tree.range(r))
CompareRange(r) ==
    /\ Idle
    /\ ret' = [op |-> "ranges", arg |-> r,
               kd |-> Elems(range(heap, tree, r)), rb |-> rb_range(rb, r)]
    /\ UNCHANGED <<rb, heap, tree, other, status, calls, history, cur, seen>>

\* *rb_tree.nearest(q) and *kd_tree.nearest(q), the sets holding a point
CompareNearest(q) ==
    /\ Idle
    /\ tree.m_root # NULL
    /\ \E o \in nearest(heap, tree, q) : \E n \in rb_nearest(rb, q) :
          ret' = [op |-> "nearests", arg |-> q, kd |-> o.value, rb |-> n]
    /\ UNCHANGED <<rb, heap, tree, other, status, calls, history, cur, seen>>


\* kdtree::PointSet tree(filename); for a file holding the points S.  The
\* points of the file count as put calls.
Build(S) ==
    /\ Idle
    /\ tree = EmptySet
    /\ calls.on_tree = 0
    /\ S # {}
    /\ Cardinality(S) <= MaxPuts
    /\ \E o \in construct(S) : heap' = o.heap /\ tree' = o.set
    /\ calls' = [calls EXCEPT !.on_tree = Cardinality(S)]
    /\ history' = S
    /\ UNCHANGED <<rb, other, status, ret, cur, seen>>

PutStep == \E p \in Points : Put(p)
ContainsStep == \E q \in Points : Contains(q)
RangeStep == \E r \in Rects : RangeQuery(r)
NearestStep == \E q \in Points : Nearest(q)
NearestKStep == \E q \in Points : \E k \in 0..(MaxPuts + 1) : NearestK(q, k)
PutOtherStep == \E p \in Points : PutOther(p)
PutBothStep == \E p \in Points : PutBoth(p)
BuildStep == \E S \in SUBSET Points : Build(S)
CompareRangeStep == \E r \in Rects : CompareRange(r)
CompareNearestStep == \E q \in Points : CompareNearest(q)

\* Puts and membership tests.
Next == PutStep \/ ContainsStep \/ Discard
Spec == Init /\ [][Next]_vars

\* Puts and range queries.
NextRange == PutStep \/ RangeStep \/ Discard
SpecRange == Init /\ [][NextRange]_vars

\* Puts and nearest-neighbour queries.
NextNearest ==
    \/ calls.on_tree < MaxNearestPuts /\ PutStep
    \/ NearestStep
    \/ Discard
SpecNearest == Init /\ [][NextNearest]_vars

\* Puts and k-nearest queries.
NextNearestK == PutStep \/ NearestKStep \/ Discard
SpecNearestK == Init /\ [][NextNearestK]_vars

\* Puts and iteration by the caller.
NextIter == PutStep \/ Begin \/ Increment \/ EndIteration
SpecIter == Init /\ [][NextIter]_vars

\* Puts, one copy construction, and puts on the copy.
NextCopy ==
    \/ calls.on_tree + calls.on_other < MaxCopyPuts /\ PutStep
    \/ Copy
    \/ PutOtherStep
SpecCopy == Init /\ [][NextCopy]_vars

\* A bulk build from a file, and puts.
NextBuild == BuildStep \/ PutStep
SpecBuild == Init /\ [][NextBuild]_vars

\* The two implementations fed the same points and asked the same queries.
NextBoth == PutBothStep \/ CompareRangeStep \/ CompareNearestStep \/ Discard
SpecBoth == Init /\ [][NextBoth]_vars

-----------------------------------------------------------------------------
(* Definitions the properties are stated with *)

\* The nodes of a set and the points they hold.
nodesOf(h, s) == Subtree(h, s.m_root)
stored(h, s) == {h[n].m_point : n \in nodesOf(h, s)}

\* The recursive in-order (left, self, right) walk.
RECURSIVE inOrder(_, _)
inOrder(h, node) ==
    IF node = NULL THEN << >>
    ELSE inOrder(h, h[node].left) \o <<h[node].m_point>> \o inOrder(h, h[node].right)

\* The depth of the deepest node (0 for an empty tree).
deepest(h, s) ==
    IF nodesOf(h, s) = {} THEN 0
    ELSE CHOOSE d \in {h[n].depth : n \in nodesOf(h, s)} :
            \A n \in nodesOf(h, s) : h[n].depth <= d

noRepeats(f) == \A i, j \in DOMAIN f : i # j => f[i] # f[j]

-----------------------------------------------------------------------------
(* C1 *)

\* C1: after any sequence of puts, contains(q) returns true if and only if
\* q is equal within epsilon to some point that was put earlier.
C1_ContainsIffPut ==
    ret.op = "contains" =>
        (ret.val <=> \E p \in history : PointEq(p, ret.arg))

-----------------------------------------------------------------------------
(* C2 *)

\* C2: range(R) returns exactly the stored points p for which R.contains(p)
\* holds, none of them twice.
C2_RangeExact ==
    ret.op = "range" =>
        /\ Elems(ret.val) = {p \in stored(heap, tree) : Rect_contains(ret.arg, p)}
        /\ noRepeats(ret.val)

-----------------------------------------------------------------------------
(* C3 *)

\* C3: on a non-empty tree nearest(q) returns a stored point, and no stored
\* point is strictly closer to q than it.
C3_NearestOptimal ==
    (ret.op = "nearest" /\ tree.m_root # NULL) =>
        /\ ret.has_value
        /\ ret.val \in stored(heap, tree)
        /\ \A p \in stored(heap, tree) :
              ~(distanceSq(p, ret.arg) < distanceSq(ret.val, ret.arg))

\* nearest(q) has returned from a tree whose root has both subtrees, the
\* near one holding the result, the far one skipped by the pruning rule.
C3_Witness ==
    /\ ret.op = "nearest"
    /\ tree.m_root # NULL
    /\ LET r == heap[tree.m_root]
           delta == x(r.m_point) - x(ret.arg)
           near == IF delta > 0 THEN r.left ELSE r.right
           far == IF delta > 0 THEN r.right ELSE r.left
       IN /\ near # NULL
          /\ far # NULL
          /\ ret.val \in {heap[n].m_point : n \in Subtree(heap, near)}
          /\ ret.val # r.m_point
          /\ delta * delta >= distanceSq(ret.arg, ret.val)

-----------------------------------------------------------------------------
(* C4 *)

\* C4: nearest(q) on an empty set returns an absent result without reading
\* through the null root, and its result is absent only when the set is
\* empty.
C4_NearestOnEmptyAbsent ==
    /\ status # "crashed"
    /\ ret.op = "nearest" => (ret.has_value <=> tree.m_root # NULL)

-----------------------------------------------------------------------------
(* C5 *)

\* C5: nearest(q, k) returns, and what it returns is min(k, size()) distinct
\* stored points such that no stored point left out is strictly closer to q
\* than the farthest point returned.
C5_NearestKExact ==
    /\ status # "hung"
    /\ ret.op = "nearestK" =>
          /\ Len(ret.val) = Min(ret.k, tree.m_size)
          /\ noRepeats(ret.val)
          /\ Elems(ret.val) \subseteq stored(heap, tree)
          /\ \A p \in stored(heap, tree) \ Elems(ret.val) :
                \A r \in Elems(ret.val) :
                    ~(distanceSq(p, ret.arg) < distanceSq(r, ret.arg))

-----------------------------------------------------------------------------
(* C6 *)

\* C6: after any sequence of puts size() is the number of nodes of the tree
\* and the number of points put so far that are distinct by epsilon
\* equality: no two nodes hold equal points, and every point put is equal
\* to the point of some node.
C6_SizeCountsDistinct ==
    status = "running" =>
        /\ tree.m_size = Cardinality(nodesOf(heap, tree))
        /\ \A n1, n2 \in nodesOf(heap, tree) :
              n1 # n2 => ~PointEq(heap[n1].m_point, heap[n2].m_point)
        /\ \A p \in history : \E q \in stored(heap, tree) : PointEq(p, q)

-----------------------------------------------------------------------------
(* C7 *)

\* C7: the points an iterator yields from begin() on, by operator++, are
\* element by element those of the recursive in-order walk from the root.
C7_IterationIsInOrder ==
    cur # NoIter =>
        LET walk == inOrder(heap, tree.m_root) IN
        /\ Len(seen) <= Len(walk)
        /\ \A i \in 1..Len(seen) : seen[i] = walk[i]
        /\ IF Len(seen) = Len(walk) THEN cur[1] = NULL
           ELSE cur[1] # NULL /\ heap[cur[1]].m_point = walk[Len(seen) + 1]

-----------------------------------------------------------------------------
(* C8 *)

\* C8: iteration reaches end() after exactly size() increments without
\* coming back to a node, and so the dump loop of reBuild, and every put
\* that runs it, terminates.
C8_IterationTerminates ==
    /\ status # "hung"
    /\ cur # NoIter =>
          /\ noRepeats(seen)
          /\ Len(seen) <= tree.m_size
          /\ (Len(seen) = tree.m_size <=> cur[1] = NULL)

-----------------------------------------------------------------------------
(* C9 *)

\* C9: each time put returns, provided the points put so far are distinct
\* (no two of them equal within epsilon), the depth of the deepest node is at
\* most 2*ln(size()).
C9_DepthWithinBound ==
    ( /\ status = "running"
      /\ tree.m_size > 0
      /\ Cardinality(history) = calls.on_tree
      /\ \A p, q \in history : p # q => ~PointEq(p, q) ) =>
        ~needsRebuild([tree EXCEPT !.max_depth = deepest(heap, tree)])

-----------------------------------------------------------------------------
(* C10 *)

\* Same shape, with the same point and depth at every position.
RECURSIVE sameTree(_, _, _)
sameTree(h, a, b) ==
    IF a = NULL \/ b = NULL THEN a = b
    ELSE /\ h[a].m_point = h[b].m_point
         /\ h[a].depth = h[b].depth
         /\ sameTree(h, h[a].left, h[b].left)
         /\ sameTree(h, h[a].right, h[b].right)

\* Every parent back-reference of s designates the node of s that has the
\* node as a child; the root has none.
parentsOwn(h, s) ==
    \A n \in nodesOf(h, s) :
        IF n = s.m_root THEN h[n].parent = NULL
        ELSE /\ h[n].parent \in nodesOf(h, s)
             /\ n \in {h[h[n].parent].left, h[h[n].parent].right}

\* s, its nodes and the points its traversal yields are the same after the
\* step.
untouched(s, sNext) ==
    /\ sNext = s
    /\ \A n \in nodesOf(heap, s) : n \in DOMAIN heap' /\ heap'[n] = heap[n]
    /\ inOrder(heap', sNext.m_root) = inOrder(heap, s.m_root)

\* C10: copy construction yields a clone of the same shape, points, depths,
\* size and max depth that shares no node with the source and whose parent
\* back-references stay inside the clone; and from then on a put on either
\* set leaves the other set, its nodes and its contents unchanged.
C10_CopyIsIndependent ==
    /\ [](other # NoSet =>
            /\ nodesOf(heap, tree) \cap nodesOf(heap, other) = {}
            /\ parentsOwn(heap, other)
            /\ parentsOwn(heap, tree))
    /\ [][/\ (other = NoSet /\ other' # NoSet) =>
                /\ sameTree(heap', tree'.m_root, other'.m_root)
                /\ other'.m_size = tree'.m_size
                /\ other'.max_depth = tree'.max_depth
                /\ untouched(tree, tree')
          /\ calls'.on_other # calls.on_other => untouched(tree, tree')
          /\ (other # NoSet /\ calls'.on_tree # calls.on_tree) =>
                untouched(other, other')
         ]_vars

\* A tree of two nodes, a root and its child, was copied, and the copy has
\* since taken a put that added a third node, which the original lacks.
C10_Witness ==
    /\ other # NoSet
    /\ status = "running"
    /\ calls.on_other = 1
    /\ Cardinality(nodesOf(heap, tree)) = 2
    /\ Cardinality(nodesOf(heap, other)) = 3
    /\ stored(heap, other) \ stored(heap, tree) # {}

-----------------------------------------------------------------------------
(* C11 *)

\* C11: fed the same sequence of points, the kd-tree and the reference set
\* return range results that are equal as sets of points, and, when not
\* empty, nearest results at the same distance from the query point.
C11_SameAsReference ==
    /\ ret.op = "ranges" => ret.kd = ret.rb
    /\ ret.op = "nearests" =>
          distanceSq(ret.kd, ret.arg) = distanceSq(ret.rb, ret.arg)

-----------------------------------------------------------------------------
(* C12 *)

\* The number of links from the root of s down to node n.
RECURSIVE distanceFromRoot(_, _, _)
distanceFromRoot(h, s, n) ==
    IF n = s.m_root THEN 0 ELSE 1 + distanceFromRoot(h, s, h[n].parent)

pointsBelow(h, node) == {h[m].m_point : m \in Subtree(h, node)}

\* Every node's stored depth is its distance from the root.
depthsAreDistances ==
    \A n \in nodesOf(heap, tree) :
        heap[n].depth = distanceFromRoot(heap, tree, n)

\* Left subtrees hold split coordinates <= the node's, right subtrees
\* strictly greater ones.
splitOrdered ==
    \A n \in nodesOf(heap, tree) :
        heap[n].depth = distanceFromRoot(heap, tree, n) =>
            LET d == heap[n].depth
                k == key(heap[n].m_point, d)
            IN /\ \A q \in pointsBelow(heap, heap[n].left) : key(q, d) <= k
               /\ \A q \in pointsBelow(heap, heap[n].right) : key(q, d) > k

\* C12: after each operation returns, at every node whose stored depth is
\* its distance from the root the left subtree holds split coordinates <=
\* the node's and the right subtree strictly greater ones, and no two nodes
\* hold equal points (Point::operator==).
C12_SplitInvariant ==
    status = "running" =>
        /\ splitOrdered
        /\ \A n1, n2 \in nodesOf(heap, tree) :
              n1 # n2 => ~PointEq(heap[n1].m_point, heap[n2].m_point)

-----------------------------------------------------------------------------
(* C13 *)

\* p is equal within epsilon to the point of some node of the tree.
alreadyStored(p) == \E q \in stored(heap, tree) : PointEq(q, p)

\* C13: a put of a point that is already stored returns having left the
\* nodes, their links and depths, the root, size and max depth as they
\* were, and runs no rebuild.
C13_DuplicatePutIsNoOp ==
    [][\A p \in Points :
          (alreadyStored(p) /\ Put(p)) =>
              /\ status' = "running"
              /\ heap' = heap
              /\ tree' = tree
              /\ ~needsRebuild(insertRoot(heap, tree, p).set)
      ]_vars

=============================================================================
